---- MODULE Spec2Model ----
(***************************************************************************)
(* Log-analyzer skill of conjure: priv/skills/log-analyzer/scripts.        *)
(*   parse_logs.py : detect_format, parse_json_logs, filter_by_level       *)
(*   analyze.py    : load_logs, analyze_errors, analyze_patterns,          *)
(*                   generate_summary, generate_diagnostics, main          *)
(*                                                                         *)
(* Python strings are sequences of one-character strings, so that upper(), *)
(* lower(), split(), slicing, join() and the substring test are computed   *)
(* character by character.  A log record is a function from field names to *)
(* such strings; an absent key is a field name outside its DOMAIN.         *)
(*                                                                         *)
(* Four specifications share the variables:                                *)
(*   Spec       the analysis functions applied to a loaded record list     *)
(*   SpecMain   the selector chain of analyze.py's main                    *)
(*   SpecFilter filter_by_level, applied once and twice                    *)
(*   SpecParse  detect_format, parse_json_logs and load_logs on a file     *)
(* Definitions marked "variant" are the program with one slip made; none   *)
(* of the specifications uses them.                                        *)
(***************************************************************************)
EXTENDS Integers, Sequences, FiniteSets, TLC

VARIABLES content, logs, args, pc, result

vars == <<content, logs, args, pc, result>>

----------------------------------------------------------------------------
(* Bounds of the explored inputs.                                          *)

\* longest record list drawn from the record catalogue
MaxLen == 2
\* longest record list of the level-block family (rates of exactly 5%, 10%, 20%)
MaxTotal == 20
\* most ERROR/FATAL records in a level block list
MaxErr == 3
\* most WARN records in a level block list
MaxWarn == 5
\* records appended after the distinct-error-type prefix
MaxExtra == 1
\* most lines of a file
MaxLines == 3
\* longest record list handed to filter_by_level
MaxFilterLen == 3

----------------------------------------------------------------------------
(* Python str and list primitives.                                         *)

LowerAlphabet ==
  <<"a", "b", "c", "d", "e", "f", "g", "h", "i", "j", "k", "l", "m",
    "n", "o", "p", "q", "r", "s", "t", "u", "v", "w", "x", "y", "z">>

UpperAlphabet ==
  <<"A", "B", "C", "D", "E", "F", "G", "H", "I", "J", "K", "L", "M",
    "N", "O", "P", "Q", "R", "S", "T", "U", "V", "W", "X", "Y", "Z">>

\* str.upper() on one character
UpperChar(c) ==
  IF \E i \in 1..26 : LowerAlphabet[i] = c
  THEN UpperAlphabet[CHOOSE i \in 1..26 : LowerAlphabet[i] = c]
  ELSE c

\* str.lower() on one character
LowerChar(c) ==
  IF \E i \in 1..26 : UpperAlphabet[i] = c
  THEN LowerAlphabet[CHOOSE i \in 1..26 : UpperAlphabet[i] = c]
  ELSE c

\* s.upper()
Upper(s) == [i \in 1..Len(s) |-> UpperChar(s[i])]

\* s.lower()
Lower(s) == [i \in 1..Len(s) |-> LowerChar(s[i])]

\* sub in s
Contains(sub, s) ==
  \E i \in 0..(Len(s) - Len(sub)) : SubSeq(s, i + 1, i + Len(sub)) = sub

\* s[:n]
Take(s, n) == SubSeq(s, 1, IF Len(s) < n THEN Len(s) ELSE n)

\* s.split(c)[0]: everything before the first c, the whole of s without one
SplitHead(s, c) ==
  IF \E i \in 1..Len(s) : s[i] = c
  THEN SubSeq(s, 1, (CHOOSE i \in 1..Len(s) :
                       s[i] = c /\ \A j \in 1..(i - 1) : s[j] # c) - 1)
  ELSE s

\* sep.join(parts)
RECURSIVE Join(_, _)
Join(parts, sep) ==
  IF Len(parts) = 0 THEN << >>
  ELSE IF Len(parts) = 1 THEN parts[1]
  ELSE parts[1] \o sep \o Join(Tail(parts), sep)

\* log.get(key, default)
Get(log, key, default) == IF key \in DOMAIN log THEN log[key] ELSE default

----------------------------------------------------------------------------
(* collections.Counter / defaultdict(int): a dict keeps its keys in        *)
(* insertion order, so a counter is the list of its (key, count) items.    *)

CounterHas(c, k) == \E i \in 1..Len(c) : c[i].key = k

\* c[k] += 1
CounterInc(c, k) ==
  IF CounterHas(c, k)
  THEN [i \in 1..Len(c) |->
          IF c[i].key = k THEN [key |-> k, count |-> c[i].count + 1] ELSE c[i]]
  ELSE Append(c, [key |-> k, count |-> 1])

\* Counter(keys): one increment per element, in order
RECURSIVE CounterOf(_)
CounterOf(keys) ==
  IF Len(keys) = 0 THEN << >>
  ELSE CounterInc(CounterOf(SubSeq(keys, 1, Len(keys) - 1)), keys[Len(keys)])

\* c.get(k, default)
CounterGet(c, k, default) ==
  IF CounterHas(c, k)
  THEN c[CHOOSE i \in 1..Len(c) : c[i].key = k].count
  ELSE default

\* (variant: items of equal count in reverse insertion order)
RankTiesLast(c, i) ==
  1 + Cardinality({j \in 1..Len(c) : c[j].count > c[i].count})
    + Cardinality({j \in 1..Len(c) : j > i /\ c[j].count = c[i].count})

\* rank of item i when the items are sorted by count, largest first, items of
\* equal count keeping their insertion order
Rank(c, i) ==
  1 + Cardinality({j \in 1..Len(c) : c[j].count > c[i].count})
    + Cardinality({j \in 1..Len(c) : j < i /\ c[j].count = c[i].count})

\* c.most_common(n): the n items of largest count, largest first; items of
\* equal count are ordered in the order first encountered
MostCommon(c, n) ==
  Take([p \in 1..Len(c) |-> c[CHOOSE i \in 1..Len(c) : Rank(c, i) = p]], n)

----------------------------------------------------------------------------
(* String literals of the program, and the strings the inputs are built    *)
(* from.                                                                   *)

ERROR == <<"E", "R", "R", "O", "R">>
FATAL == <<"F", "A", "T", "A", "L">>
WARN == <<"W", "A", "R", "N">>
WARNING == <<"W", "A", "R", "N", "I", "N", "G">>
INFO == <<"I", "N", "F", "O">>
DEBUG == <<"D", "E", "B", "U", "G">>
error_lc == <<"e", "r", "r", "o", "r">>
fatal_lc == <<"f", "a", "t", "a", "l">>
Error_mc == <<"E", "r", "r", "o", "r">>
warn_lc == <<"w", "a", "r", "n">>
Warning_mc == <<"W", "a", "r", "n", "i", "n", "g">>
debug_lc == <<"d", "e", "b", "u", "g">>
TRACE == <<"T", "R", "A", "C", "E">>
unknown == <<"u", "n", "k", "n", "o", "w", "n">>
UnknownError == <<"U", "n", "k", "n", "o", "w", "n", " ", "e", "r", "r", "o", "r">>
kw_timeout == <<"t", "i", "m", "e", "o", "u", "t">>
kw_connection == <<"c", "o", "n", "n", "e", "c", "t", "i", "o", "n">>
kw_failed == <<"f", "a", "i", "l", "e", "d">>
kw_refused == <<"r", "e", "f", "u", "s", "e", "d">>
kw_memory == <<"m", "e", "m", "o", "r", "y">>
kw_oom == <<"o", "o", "m">>
kw_ssl == <<"s", "s", "l">>
kw_certificate == <<"c", "e", "r", "t", "i", "f", "i", "c", "a", "t", "e">>
kw_rate_limit == <<"r", "a", "t", "e", " ", "l", "i", "m", "i", "t">>
m_TimeoutDb == <<"T", "i", "m", "e", "o", "u", "t", ":", " ", "d", "b">>
m_ConnRefused == <<"C", "o", "n", "n", "e", "c", "t", "i", "o", "n", " ", "r", "e", "f", "u", "s", "e", "d">>
m_colon_x == <<":", "x">>
m_rate == <<"r", "a", "t", "e">>
m_limit == <<"l", "i", "m", "i", "t">>
m_connection == <<"c", "o", "n", "n", "e", "c", "t", "i", "o", "n">>
m_failed == <<"f", "a", "i", "l", "e", "d">>
m_OOM == <<"O", "O", "M">>
m_SSL == <<"S", "S", "L", " ", "h", "a", "n", "d", "s", "h", "a", "k", "e">>
m_memory == <<"O", "u", "t", " ", "o", "f", " ", "m", "e", "m", "o", "r", "y">>
m_cert == <<"c", "e", "r", "t", "i", "f", "i", "c", "a", "t", "e", " ", "e", "x", "p", "i", "r", "e", "d">>
m_ok == <<"o", "k">>
m_timeout == <<"t", "i", "m", "e", "o", "u", "t">>
m_all == <<"t", "i", "m", "e", "o", "u", "t", " ", "c", "o", "n", "n", "e", "c", "t", "i", "o", "n", " ", "f", "a", "i", "l", "e", "d", " ", "o", "o", "m", " ", "s", "s", "l", " ", "r", "a", "t", "e", " ", "l", "i", "m", "i", "t">>
svc_a == <<"s", "v", "c", "-", "a">>
host_1 == <<"h", "1">>

\* a message longer than the 50-character prefix: fifty "x" then five c
LongMsg(c) == [i \in 1..55 |-> IF i <= 50 THEN "x" ELSE c]

\* the message of the i-th distinct error type: "e<letter>: x"
TypeMsg(i) == <<"e", LowerAlphabet[i], ":", " ", "x">>

----------------------------------------------------------------------------
(* analyze.py                                                              *)

\* msg[:50]
MsgPrefixLen == 50
\* most_common(10)
TopN == 10
\* errors[:5]
SampleN == 5

\* (variant: the level compared as written, not uppercased)
ErrorLevelNoUpper(log) == Get(log, "level", << >>)

\* the level analyze_errors tests: log.get("level", "").upper()
ErrorLevel(log) == Upper(Get(log, "level", << >>))

\* the level the summary and the pattern pass count: log.get("level", "INFO").upper()
CanonicalLevel(log) == Upper(Get(log, "level", INFO))

IsError(log) == ErrorLevel(log) \in {ERROR, FATAL}

\* (variant: the 50-character cut left out)
ErrorTypeNoCut(msg) ==
  IF Contains(<<":">>, msg) THEN SplitHead(msg, ":") ELSE msg

\* error_type = msg.split(":")[0] if ":" in msg else msg[:50]
ErrorType(msg) ==
  IF Contains(<<":">>, msg) THEN SplitHead(msg, ":") ELSE Take(msg, MsgPrefixLen)

ErrorTypeOf(error) == ErrorType(Get(error, "message", UnknownError))

ServiceOf(log) == Get(log, "service", unknown)

HostOf(log) == Get(log, "host", unknown)

analyze_errors(ls) ==
  LET errors == SelectSeq(ls, IsError)
      error_messages == CounterOf([i \in 1..Len(errors) |-> ErrorTypeOf(errors[i])])
      error_by_service == CounterOf([i \in 1..Len(errors) |-> ServiceOf(errors[i])])
      error_by_host == CounterOf([i \in 1..Len(errors) |-> HostOf(errors[i])])
  IN [total_errors |-> Len(errors),
      unique_errors |-> Len(error_messages),
      top_errors |-> MostCommon(error_messages, TopN),
      errors_by_service |-> error_by_service,
      errors_by_host |-> error_by_host,
      sample_errors |-> Take(errors, SampleN)]

\* pattern = msg[:50] if len(msg) > 50 else msg
PatternOf(log) ==
  LET msg == Get(log, "message", << >>)
  IN IF Len(msg) > MsgPrefixLen THEN Take(msg, MsgPrefixLen) ELSE msg

\* The explored records carry no timestamp, so ts is "" and the hourly
\* distribution stays empty; datetime.fromisoformat is never reached.
analyze_patterns(ls) ==
  [level_distribution |-> CounterOf([i \in 1..Len(ls) |-> CanonicalLevel(ls[i])]),
   service_distribution |-> CounterOf([i \in 1..Len(ls) |-> ServiceOf(ls[i])]),
   top_patterns |-> MostCommon(CounterOf([i \in 1..Len(ls) |-> PatternOf(ls[i])]), TopN),
   hourly_distribution |-> << >>]

\* (variant: inclusive comparisons)
HealthStatusInclusive(errs, warns, total) ==
  IF errs * 100 >= 10 * total THEN "CRITICAL"
  ELSE IF errs * 100 >= 5 * total THEN "WARNING"
  ELSE IF warns * 100 >= 20 * total THEN "ATTENTION"
  ELSE "HEALTHY"

\* The health verdict.  error_rate = errs / total * 100 and
\* warn_rate = warns / total * 100 are IEEE doubles in the program; the double
\* exceeds 10, 5 or 20 exactly when the rational does (errs/total = 1/10 rounds
\* to 0.1 and 0.1 * 100 rounds to 10.0, likewise 0.05 and 0.2), so the
\* comparisons are made on integers.
HealthStatus(errs, warns, total) ==
  IF errs * 100 > 10 * total THEN "CRITICAL"
  ELSE IF errs * 100 > 5 * total THEN "WARNING"
  ELSE IF warns * 100 > 20 * total THEN "ATTENTION"
  ELSE "HEALTHY"

Recommendation(health) ==
  CASE health = "CRITICAL" ->
         "High error rate detected. Immediate investigation required."
    [] health = "WARNING" ->
         "Elevated error rate. Review error logs for patterns."
    [] health = "ATTENTION" -> "High warning rate. Monitor for escalation."
    [] OTHER -> "System operating normally."

\* The two formatted rate strings of the report are left out: no property
\* below reads them.
generate_summary(ls) ==
  LET total == Len(ls)
      level_counts == CounterOf([i \in 1..Len(ls) |-> CanonicalLevel(ls[i])])
      errs == CounterGet(level_counts, ERROR, 0) + CounterGet(level_counts, FATAL, 0)
      warns == CounterGet(level_counts, WARN, 0)
  IN IF total = 0
     THEN [total_logs |-> 0, status |-> "No logs to analyze"]
     ELSE [total_logs |-> total,
           level_breakdown |-> level_counts,
           health_status |-> HealthStatus(errs, warns, total),
           recommendation |-> Recommendation(HealthStatus(errs, warns, total))]

\* (variant: FATAL records selected too)
IsDiagErrorWithFatal(log) == ErrorLevel(log) \in {ERROR, FATAL}

\* errors = [log for log in logs if log.get("level", "").upper() == "ERROR"]
IsDiagError(log) == ErrorLevel(log) = ERROR

MessageOf(log) == Get(log, "message", << >>)

\* error_text = " ".join(error_messages).lower()
ErrorText(ls) ==
  LET errors == SelectSeq(ls, IsDiagError)
      error_messages == [i \in 1..Len(errors) |-> MessageOf(errors[i])]
  IN Lower(Join(error_messages, <<" ">>))

Diag(issue, suggestion, priority) ==
  [issue |-> issue, suggestion |-> suggestion, priority |-> priority]

\* diagnostics.append(d) when cond
AppendIf(diagnostics, cond, d) == IF cond THEN Append(diagnostics, d) ELSE diagnostics

generate_diagnostics(ls) ==
  LET error_text == ErrorText(ls)
      d0 == << >>
      d1 == AppendIf(d0, Contains(kw_timeout, error_text),
              Diag("Timeout errors detected",
                   "Check network connectivity and service response times", "HIGH"))
      d2 == AppendIf(d1, Contains(kw_connection, error_text)
                           /\ (Contains(kw_failed, error_text)
                               \/ Contains(kw_refused, error_text)),
              Diag("Connection failures detected",
                   "Verify dependent services are running and accessible", "HIGH"))
      d3 == AppendIf(d2, Contains(kw_memory, error_text) \/ Contains(kw_oom, error_text),
              Diag("Memory issues detected",
                   "Check memory usage and consider increasing limits", "HIGH"))
      d4 == AppendIf(d3, Contains(kw_ssl, error_text)
                           \/ Contains(kw_certificate, error_text),
              Diag("SSL/Certificate issues detected",
                   "Review SSL certificates and expiration dates", "MEDIUM"))
      d5 == AppendIf(d4, Contains(kw_rate_limit, error_text),
              Diag("Rate limiting detected",
                   "Review API usage patterns and rate limit configurations", "MEDIUM"))
  IN AppendIf(d5, Len(d5) = 0,
       Diag("No critical patterns detected",
            "Review individual error messages for specifics", "LOW"))

----------------------------------------------------------------------------
(* The record lists the analysis functions are applied to.                 *)

Rec(level, message) == [level |-> level, message |-> message]

\* records of the catalogue: every level spelling, absent and empty fields,
\* messages with and without ':', longer than the prefix, with the diagnostic
\* keywords whole or split over two messages
Catalogue ==
  { [level |-> ERROR, message |-> m_TimeoutDb, service |-> svc_a],
    [level |-> ERROR, message |-> m_failed, host |-> host_1],
    [level |-> ERROR],
    [message |-> m_ok],
    Rec(error_lc, m_ConnRefused),
    Rec(ERROR, << >>),
    Rec(FATAL, m_timeout),
    Rec(fatal_lc, m_colon_x),
    Rec(ERROR, LongMsg("a")),
    Rec(FATAL, LongMsg("b")),
    Rec(ERROR, LongMsg(":")),
    Rec(ERROR, m_rate),
    Rec(Error_mc, m_limit),
    Rec(ERROR, m_connection),
    Rec(ERROR, m_OOM),
    Rec(ERROR, m_SSL),
    Rec(ERROR, m_memory),
    Rec(ERROR, m_cert),
    Rec(ERROR, m_all),
    Rec(WARN, m_ok),
    Rec(WARNING, m_ok),
    Rec(warn_lc, m_timeout),
    Rec(INFO, m_timeout),
    Rec(debug_lc, m_ok),
    Rec(TRACE, m_ok),
    Rec(<< >>, m_ok) }

SeqsUpTo(S, n) == UNION { [1..k -> S] : k \in 0..n }

CatalogueLogs == SeqsUpTo(Catalogue, MaxLen)

Block(n, rec) == [i \in 1..n |-> rec]

\* e error records (ERROR and FATAL alternating), w WARN, g WARNING, the rest
\* INFO, n records in all
LevelBlock(e, w, g, n) ==
  [i \in 1..e |-> IF i % 2 = 0 THEN Rec(FATAL, m_timeout) ELSE Rec(ERROR, m_ok)]
    \o Block(w, Rec(WARN, m_ok)) \o Block(g, Rec(WARNING, m_ok))
    \o Block(n - e - w - g, Rec(INFO, m_ok))

LevelBlockLogs ==
  { LevelBlock(q[1], q[2], q[3], q[4]) :
      q \in { r \in (0..MaxErr) \X (0..MaxWarn) \X (0..1) \X (1..MaxTotal) :
                r[1] + r[2] + r[3] <= r[4] } }

ErrRec(i) == Rec(ERROR, TypeMsg(i))

\* k distinct error types once each, then up to MaxExtra more error records
\* of old or new types: enough types for the top-10 cut to drop some
ErrorTypeLogs ==
  { [i \in 1..k |-> ErrRec(i)] \o x :
      k \in (TopN - 1)..(TopN + 1),
      x \in SeqsUpTo({ ErrRec(i) : i \in 1..(TopN + 2) }, MaxExtra) }

AnalyzeInputs == CatalogueLogs \cup LevelBlockLogs \cup ErrorTypeLogs

----------------------------------------------------------------------------
(* Spec: the four analysis functions of analyze.py, each applied to the    *)
(* loaded record list.                                                     *)

Init ==
  /\ content = << >>
  /\ logs \in AnalyzeInputs
  /\ args = {}
  /\ pc = "loaded"
  /\ result = << >>

GenerateSummary ==
  /\ pc = "loaded"
  /\ result' = generate_summary(logs)
  /\ pc' = "summary"
  /\ UNCHANGED <<content, logs, args>>

AnalyzeErrors ==
  /\ pc = "loaded"
  /\ result' = analyze_errors(logs)
  /\ pc' = "errors"
  /\ UNCHANGED <<content, logs, args>>

AnalyzePatterns ==
  /\ pc = "loaded"
  /\ result' = analyze_patterns(logs)
  /\ pc' = "patterns"
  /\ UNCHANGED <<content, logs, args>>

GenerateDiagnostics ==
  /\ pc = "loaded"
  /\ result' = generate_diagnostics(logs)
  /\ pc' = "diagnostics"
  /\ UNCHANGED <<content, logs, args>>

Next == GenerateSummary \/ AnalyzeErrors \/ AnalyzePatterns \/ GenerateDiagnostics

Spec == Init /\ [][Next]_vars

----------------------------------------------------------------------------
(* SpecMain: main() of analyze.py from the point where the arguments are   *)
(* parsed and load_logs has returned.  args holds the selectors given on   *)
(* the command line; one action per branch of the if/elif chain.           *)

Selectors == {"summary", "errors_only", "patterns", "diagnostics"}

\* longest record list handed to main
MaxMainLen == 1

InitMain ==
  /\ content = << >>
  /\ logs \in SeqsUpTo(Catalogue, MaxMainLen)
  /\ args \in SUBSET Selectors
  /\ pc = "main"
  /\ result = << >>

MainSummary ==
  /\ pc = "main"
  /\ "summary" \in args
  /\ result' = [summary |-> generate_summary(logs)]
  /\ pc' = "printed"
  /\ UNCHANGED <<content, logs, args>>

MainErrorsOnly ==
  /\ pc = "main"
  /\ "summary" \notin args
  /\ "errors_only" \in args
  /\ result' = [errors |-> analyze_errors(logs)]
  /\ pc' = "printed"
  /\ UNCHANGED <<content, logs, args>>

MainPatterns ==
  /\ pc = "main"
  /\ "summary" \notin args
  /\ "errors_only" \notin args
  /\ "patterns" \in args
  /\ result' = [patterns |-> analyze_patterns(logs)]
  /\ pc' = "printed"
  /\ UNCHANGED <<content, logs, args>>

MainDiagnostics ==
  /\ pc = "main"
  /\ "summary" \notin args
  /\ "errors_only" \notin args
  /\ "patterns" \notin args
  /\ "diagnostics" \in args
  /\ result' = [diagnostics |-> generate_diagnostics(logs)]
  /\ pc' = "printed"
  /\ UNCHANGED <<content, logs, args>>

MainFull ==
  /\ pc = "main"
  /\ args = {}
  /\ result' = [summary |-> generate_summary(logs),
                errors |-> analyze_errors(logs),
                patterns |-> analyze_patterns(logs),
                diagnostics |-> generate_diagnostics(logs)]
  /\ pc' = "printed"
  /\ UNCHANGED <<content, logs, args>>

NextMain ==
  MainSummary \/ MainErrorsOnly \/ MainPatterns \/ MainDiagnostics \/ MainFull

SpecMain == InitMain /\ [][NextMain]_vars

----------------------------------------------------------------------------
(* parse_logs.py: filter_by_level                                          *)

\* Optional[str]: None is the empty list, a string s the one-element list <<s>>
None == << >>

Some(s) == <<s>>

\* Python truthiness of an Optional[str]: None and "" are false
Truthy(level) == level # None /\ Len(level[1]) > 0

\* (variant: FATAL missing from the table)
LevelOrdinalNoFatal(name) ==
  CASE name = DEBUG -> 0
    [] name = INFO -> 1
    [] name = WARN -> 2
    [] name = WARNING -> 2
    [] name = ERROR -> 3
    [] OTHER -> 0

\* level_order.get(name, 0)
LevelOrdinal(name) ==
  CASE name = DEBUG -> 0
    [] name = INFO -> 1
    [] name = WARN -> 2
    [] name = WARNING -> 2
    [] name = ERROR -> 3
    [] name = FATAL -> 4
    [] OTHER -> 0

\* (variant: strict comparison)
LevelPassesStrict(log, min_level) == LevelOrdinal(CanonicalLevel(log)) > min_level

\* level_order.get(log.get("level", "INFO").upper(), 0) >= min_level
LevelPasses(log, min_level) == LevelOrdinal(CanonicalLevel(log)) >= min_level

\* the generator, consumed to its end
filter_by_level(ls, level) ==
  IF ~Truthy(level) THEN ls
  ELSE LET min_level == LevelOrdinal(Upper(level[1]))
           Passes(log) == LevelPasses(log, min_level)
       IN SelectSeq(ls, Passes)

----------------------------------------------------------------------------
(* SpecFilter: filter_by_level applied to a record list, and applied again *)
(* to what it returned.  args is the list of thresholds applied so far.    *)

FilterCatalogue ==
  { [message |-> m_ok],
    Rec(<< >>, m_ok),
    Rec(TRACE, m_ok),
    Rec(debug_lc, m_ok),
    Rec(INFO, m_ok),
    Rec(Warning_mc, m_ok),
    Rec(error_lc, m_ok),
    Rec(ERROR, m_timeout),
    Rec(FATAL, m_ok) }

Thresholds ==
  { None, Some(<< >>), Some(DEBUG), Some(INFO), Some(warn_lc), Some(WARNING),
    Some(ERROR), Some(FATAL), Some(TRACE) }

InitFilter ==
  /\ content = << >>
  /\ logs \in SeqsUpTo(FilterCatalogue, MaxFilterLen)
  /\ args = << >>
  /\ pc = "parsed"
  /\ result = << >>

FilterByLevel ==
  /\ pc = "parsed"
  /\ \E level \in Thresholds :
       /\ result' = filter_by_level(logs, level)
       /\ args' = <<level>>
  /\ pc' = "filtered"
  /\ UNCHANGED <<content, logs>>

FilterAgain ==
  /\ pc = "filtered"
  /\ \E level \in Thresholds :
       /\ result' = filter_by_level(result, level)
       /\ args' = Append(args, level)
  /\ pc' = "refiltered"
  /\ UNCHANGED <<content, logs>>

NextFilter == FilterByLevel \/ FilterAgain

SpecFilter == InitFilter /\ [][NextFilter]_vars

----------------------------------------------------------------------------
(* Files and JSON.  A file's text is a sequence of characters; the string  *)
(* literal "k" of a JSON text is written as the one character "k", a       *)
(* number is a run of the digit "1", "x" is a character no JSON value      *)
(* starts with.  A parsed value is written as its text without whitespace; *)
(* "k" being the only key, an object is {} or {k: v} with v the value of   *)
(* the last member, as in a Python dict.                                   *)

IsSpace(c) == c \in {" ", "\n"}

\* s.strip()
RECURSIVE Strip(_)
Strip(s) ==
  IF Len(s) = 0 THEN s
  ELSE IF IsSpace(s[1]) THEN Strip(Tail(s))
  ELSE IF IsSpace(s[Len(s)]) THEN Strip(SubSeq(s, 1, Len(s) - 1))
  ELSE s

\* s.split("\n")
RECURSIVE SplitLines(_)
SplitLines(s) ==
  IF \E i \in 1..Len(s) : s[i] = "\n"
  THEN LET n == CHOOSE i \in 1..Len(s) : s[i] = "\n" /\ \A j \in 1..(i - 1) : s[j] # "\n"
       IN <<SubSeq(s, 1, n - 1)>> \o SplitLines(SubSeq(s, n + 1, Len(s)))
  ELSE <<s>>

\* f.readline(): the text up to and with the first line break
ReadLine(s) ==
  IF \E i \in 1..Len(s) : s[i] = "\n"
  THEN SubSeq(s, 1, CHOOSE i \in 1..Len(s) : s[i] = "\n" /\ \A j \in 1..(i - 1) : s[j] # "\n")
  ELSE s

\* the index of the first character at or after i that is no whitespace
RECURSIVE SkipSpace(_, _)
SkipSpace(s, i) == IF i <= Len(s) /\ IsSpace(s[i]) THEN SkipSpace(s, i + 1) ELSE i

\* the index after the run of digits that starts at i
RECURSIVE DigitsEnd(_, _)
DigitsEnd(s, i) == IF i <= Len(s) /\ s[i] = "1" THEN DigitsEnd(s, i + 1) ELSE i

ParseFail == [ok |-> FALSE, next |-> 0, val |-> << >>, elems |-> << >>]

Parsed(next, val, elems) == [ok |-> TRUE, next |-> next, val |-> val, elems |-> elems]

\* json.loads' decoder: the value that starts at s[i], whitespace skipped
RECURSIVE ParseValue(_, _), ParseElements(_, _, _), ParseMembers(_, _)
ParseValue(s, i) ==
  LET j == SkipSpace(s, i)
  IN IF j > Len(s) THEN ParseFail
     ELSE IF s[j] = "k" THEN Parsed(j + 1, <<"k">>, << >>)
     ELSE IF s[j] = "1" THEN Parsed(DigitsEnd(s, j), SubSeq(s, j, DigitsEnd(s, j) - 1), << >>)
     ELSE IF s[j] = "["
       THEN LET n == SkipSpace(s, j + 1)
            IN IF n <= Len(s) /\ s[n] = "]" THEN Parsed(n + 1, <<"[", "]">>, << >>)
               ELSE ParseElements(s, j + 1, << >>)
     ELSE IF s[j] = "{"
       THEN LET n == SkipSpace(s, j + 1)
            IN IF n <= Len(s) /\ s[n] = "}" THEN Parsed(n + 1, <<"{", "}">>, << >>)
               ELSE ParseMembers(s, j + 1)
     ELSE ParseFail

\* the elements of a list after "[" or ",", up to the closing "]"
ParseElements(s, i, before) ==
  LET v == ParseValue(s, i)
      n == SkipSpace(s, v.next)
      elems == Append(before, v.val)
  IN IF ~v.ok \/ n > Len(s) THEN ParseFail
     ELSE IF s[n] = "," THEN ParseElements(s, n + 1, elems)
     ELSE IF s[n] = "]"
       THEN Parsed(n + 1, <<"[">> \o Join(elems, <<",">>) \o <<"]">>, elems)
     ELSE ParseFail

\* the members of an object after "{" or ",", up to the closing "}"
ParseMembers(s, i) ==
  LET j == SkipSpace(s, i)
      c == SkipSpace(s, j + 1)
      v == ParseValue(s, c + 1)
      n == SkipSpace(s, v.next)
  IN IF j > Len(s) \/ s[j] # "k" \/ c > Len(s) \/ s[c] # ":" THEN ParseFail
     ELSE IF ~v.ok \/ n > Len(s) THEN ParseFail
     ELSE IF s[n] = "," THEN ParseMembers(s, n + 1)
     ELSE IF s[n] = "}" THEN Parsed(n + 1, <<"{", "k", ":">> \o v.val \o <<"}">>, << >>)
     ELSE ParseFail

\* json.loads(s): the parse of the whole of s, ok FALSE for JSONDecodeError
JsonLoads(s) ==
  LET v == ParseValue(s, 1)
  IN IF v.ok /\ SkipSpace(s, v.next) > Len(s) THEN v ELSE ParseFail

\* isinstance(v, list)
IsList(v) == v.val[1] = "["

\* the values of the lines that parse, in order; the others are skipped
RECURSIVE JsonLines(_)
JsonLines(lines) ==
  IF Len(lines) = 0 THEN << >>
  ELSE LET line == Strip(lines[1])
           v == JsonLoads(line)
       IN (IF Len(line) > 0 /\ v.ok THEN <<v.val>> ELSE << >>) \o JsonLines(Tail(lines))

\* parse_logs.py parse_json_logs, the generator consumed to its end
parse_json_logs(text) ==
  LET stripped == Strip(text)
      whole == JsonLoads(stripped)
  IN IF whole.ok /\ IsList(whole) THEN whole.elems
     ELSE JsonLines(SplitLines(stripped))

\* analyze.py load_logs, for a text json.loads accepts
load_logs(text) ==
  LET v == JsonLoads(Strip(text))
  IN IF IsList(v) THEN v.elems ELSE <<v.val>>

StartsWith(s, c) == Len(s) > 0 /\ s[1] = c

\* (variant: only "{" recognised)
detect_format_brace_only(text) ==
  IF StartsWith(Strip(ReadLine(text)), "{") THEN "json" ELSE "text"

\* parse_logs.py detect_format
detect_format(text) ==
  LET first_line == Strip(ReadLine(text))
  IN IF StartsWith(first_line, "{") \/ StartsWith(first_line, "[") THEN "json" ELSE "text"

----------------------------------------------------------------------------
(* SpecParse: a file's text handed to detect_format, to parse_json_logs    *)
(* and to load_logs.  The text parser (a regular expression per line) and  *)
(* fetch_logs.py are not modelled.                                         *)

LineKinds ==
  { << >>,
    <<"{">>, <<"}">>, <<"[">>, <<"]">>,
    <<" ", " ", "k", ":", " ", "1">>,
    <<" ", " ", "k", ":", " ", "k", ",">>,
    <<"{", "k", ":", " ", "1", "}">>,
    <<" ", " ", "1", "1">>,
    <<"x">> }

FileTexts == { Join(lines, <<"\n">>) : lines \in SeqsUpTo(LineKinds, MaxLines) }

InitParse ==
  /\ content \in FileTexts
  /\ logs = << >>
  /\ args = {}
  /\ pc = "file"
  /\ result = << >>

DetectFormat ==
  /\ pc = "file"
  /\ result' = detect_format(content)
  /\ pc' = "detected"
  /\ UNCHANGED <<content, logs, args>>

ParseJsonLogs ==
  /\ pc = "file"
  /\ logs' = parse_json_logs(content)
  /\ pc' = "parsed"
  /\ UNCHANGED <<content, args, result>>

\* load_logs returns the records
LoadLogs ==
  /\ pc = "file"
  /\ JsonLoads(Strip(content)).ok
  /\ logs' = load_logs(content)
  /\ pc' = "loaded"
  /\ UNCHANGED <<content, args, result>>

\* json.loads raises JSONDecodeError, which main reports before exiting 1
LoadLogsInvalid ==
  /\ pc = "file"
  /\ ~JsonLoads(Strip(content)).ok
  /\ result' = "Error: Invalid JSON in log file"
  /\ pc' = "exit_1"
  /\ UNCHANGED <<content, logs, args>>

NextParse == DetectFormat \/ ParseJsonLogs \/ LoadLogs \/ LoadLogsInvalid

SpecParse == InitParse /\ [][NextParse]_vars

----------------------------------------------------------------------------
(* Properties of the analysis functions (Spec).                            *)

Min(a, b) == IF a < b THEN a ELSE b

\* how many records of the loaded list have canonical level L
LevelCount(L) == Cardinality({i \in 1..Len(logs) : CanonicalLevel(logs[i]) = L})

C1_errs == LevelCount(ERROR) + LevelCount(FATAL)

C1_warns == LevelCount(WARN)

\* C1: for a non-empty record list the health verdict is the first match of
\* error_rate > 10 (CRITICAL), error_rate > 5 (WARNING), warn_rate > 20
\* (ATTENTION), else HEALTHY, with error_rate = (ERROR + FATAL) / total * 100
\* and warn_rate = WARN / total * 100; the comparisons are strict, so a rate
\* of exactly 10, 5 or 20 does not give the verdict.
C1_HealthVerdict ==
  (pc = "summary" /\ Len(logs) > 0) =>
    LET total == Len(logs)
        hs == result.health_status
    IN /\ result.total_logs = total
       /\ (hs = "CRITICAL") <=> (C1_errs * 100 > 10 * total)
       /\ (hs = "WARNING") <=>
            (C1_errs * 100 <= 10 * total /\ C1_errs * 100 > 5 * total)
       /\ (hs = "ATTENTION") <=>
            (C1_errs * 100 <= 5 * total /\ C1_warns * 100 > 20 * total)
       /\ (hs = "HEALTHY") <=>
            (C1_errs * 100 <= 5 * total /\ C1_warns * 100 <= 20 * total)

\* an error rate of exactly 10% with a warn rate above 20%: WARNING, neither
\* CRITICAL (strict) nor ATTENTION (checked later)
C1_Witness ==
  /\ pc = "summary"
  /\ Len(logs) > 0
  /\ C1_errs * 100 = 10 * Len(logs)
  /\ C1_warns * 100 > 20 * Len(logs)
  /\ LevelCount(FATAL) > 0
  /\ result.health_status = "WARNING"

\* the records whose level, uppercased, is exactly ERROR
C3_IsError(log) == "level" \in DOMAIN log /\ Upper(log.level) = ERROR

C3_Text(log) == IF "message" \in DOMAIN log THEN log.message ELSE << >>

C3_Errors == SelectSeq(logs, C3_IsError)

C3_Corpus == Lower(Join([i \in 1..Len(C3_Errors) |-> C3_Text(C3_Errors[i])], <<" ">>))

C3_Issues ==
  <<"Timeout errors detected", "Connection failures detected",
    "Memory issues detected", "SSL/Certificate issues detected",
    "Rate limiting detected">>

C3_Fires(i) ==
  CASE i = 1 -> Contains(kw_timeout, C3_Corpus)
    [] i = 2 -> Contains(kw_connection, C3_Corpus)
                  /\ (Contains(kw_failed, C3_Corpus) \/ Contains(kw_refused, C3_Corpus))
    [] i = 3 -> Contains(kw_memory, C3_Corpus) \/ Contains(kw_oom, C3_Corpus)
    [] i = 4 -> Contains(kw_ssl, C3_Corpus) \/ Contains(kw_certificate, C3_Corpus)
    [] i = 5 -> Contains(kw_rate_limit, C3_Corpus)

\* C3: the corpus is built only from the records whose uppercased level is
\* exactly ERROR (FATAL contributes nothing); the result is one entry per
\* firing rule in the order Timeout, Connection failures, Memory,
\* SSL/Certificate, Rate limiting and no LOW entry, or, when no rule fires,
\* the single LOW entry "No critical patterns detected"; it is never empty
\* and never longer than 5.
C3_Diagnostics ==
  pc = "diagnostics" =>
    LET firing == SelectSeq(<<1, 2, 3, 4, 5>>, C3_Fires)
    IN /\ Len(result) \in 1..5
       /\ Len(firing) > 0 =>
            /\ [i \in 1..Len(result) |-> result[i].issue]
                 = [i \in 1..Len(firing) |-> C3_Issues[firing[i]]]
            /\ \A i \in 1..Len(result) : result[i].priority # "LOW"
       /\ Len(firing) = 0 =>
            /\ Len(result) = 1
            /\ result[1].issue = "No critical patterns detected"
            /\ result[1].priority = "LOW"

\* a FATAL record whose message holds a trigger word, no rule firing
C3_Witness ==
  /\ pc = "diagnostics"
  /\ \E i \in 1..Len(logs) :
       /\ Upper(Get(logs[i], "level", << >>)) = FATAL
       /\ Contains(kw_timeout, Lower(Get(logs[i], "message", << >>)))
  /\ Len(result) = 1
  /\ result[1].priority = "LOW"

\* the indices of the records analyze_errors selects
C5_Selected ==
  {i \in 1..Len(logs) :
     "level" \in DOMAIN logs[i] /\ Upper(logs[i].level) \in {ERROR, FATAL}}

\* everything before the first ':' of a message that has one
C5_BeforeColon(msg) ==
  LET n == CHOOSE n \in 0..(Len(msg) - 1) :
             msg[n + 1] = ":" /\ \A j \in 1..n : msg[j] # ":"
  IN [i \in 1..n |-> msg[i]]

C5_First50(msg) == [i \in 1..Min(50, Len(msg)) |-> msg[i]]

C5_HasColon(msg) == \E i \in 1..Len(msg) : msg[i] = ":"

\* the key as the claim states it: an absent or empty message gives
\* "Unknown error"
C5_ClaimedType(log) ==
  IF "message" \notin DOMAIN log THEN UnknownError
  ELSE IF C5_HasColon(log.message) THEN C5_BeforeColon(log.message)
  ELSE IF Len(log.message) > 0 THEN C5_First50(log.message)
  ELSE UnknownError

\* the key as amended: only an absent message gives "Unknown error", an empty
\* message gives the empty key
C5_AmendedType(log) ==
  IF "message" \notin DOMAIN log THEN UnknownError
  ELSE IF C5_HasColon(log.message) THEN C5_BeforeColon(log.message)
  ELSE C5_First50(log.message)

\* C5 as stated: the error_type of a selected record is the part of message
\* before its first ':', else its first 50 characters when it is non-empty,
\* else "Unknown error" when message is absent or empty; unique_errors is the
\* number of distinct keys and total_errors the number of selected records.
C5_ErrorTypeAsClaimed ==
  pc = "errors" =>
    /\ result.total_errors = Cardinality(C5_Selected)
    /\ result.unique_errors = Cardinality({C5_ClaimedType(logs[i]) : i \in C5_Selected})
    /\ \A p \in 1..Len(result.top_errors) :
         result.top_errors[p].count =
           Cardinality({i \in C5_Selected :
                          C5_ClaimedType(logs[i]) = result.top_errors[p].key})

\* C5 amended: "Unknown error" is the key of a selected record with no
\* message field only; an empty message has the empty string as its key.
C5_ErrorTypeAmended ==
  pc = "errors" =>
    /\ result.total_errors = Cardinality(C5_Selected)
    /\ result.unique_errors = Cardinality({C5_AmendedType(logs[i]) : i \in C5_Selected})
    /\ \A p \in 1..Len(result.top_errors) :
         result.top_errors[p].count =
           Cardinality({i \in C5_Selected :
                          C5_AmendedType(logs[i]) = result.top_errors[p].key})

\* a selected record with an empty message, counted under the empty key, next
\* to one with no message at all, counted under "Unknown error"
C5_Witness ==
  /\ pc = "errors"
  /\ \E i \in C5_Selected : "message" \in DOMAIN logs[i] /\ logs[i].message = << >>
  /\ \E i \in C5_Selected : "message" \notin DOMAIN logs[i]
  /\ \E p \in 1..Len(result.top_errors) : result.top_errors[p].key = << >>
  /\ \E p \in 1..Len(result.top_errors) : result.top_errors[p].key = UnknownError

C6_Selected == {i \in 1..Len(logs) : IsError(logs[i])}

C6_Types == {ErrorTypeOf(logs[i]) : i \in C6_Selected}

C6_Count(k) == Cardinality({i \in C6_Selected : ErrorTypeOf(logs[i]) = k})

\* where type k first occurs in the input
C6_First(k) ==
  CHOOSE i \in C6_Selected :
    /\ ErrorTypeOf(logs[i]) = k
    /\ \A j \in C6_Selected : ErrorTypeOf(logs[j]) = k => i <= j

\* type a is ranked before type b: more occurrences, or as many and seen first
C6_Before(a, b) ==
  \/ C6_Count(a) > C6_Count(b)
  \/ C6_Count(a) = C6_Count(b) /\ C6_First(a) < C6_First(b)

\* C6: top_errors has min(10, number of distinct error types) entries, by
\* count descending, equal counts in the order of first occurrence in the
\* input; no type left out has a higher count than one listed, and of the
\* types tied at the cut the earlier-seen are kept.
C6_TopErrors ==
  pc = "errors" =>
    LET top == result.top_errors
        listed == {top[p].key : p \in 1..Len(top)}
    IN /\ Len(top) = Min(10, Cardinality(C6_Types))
       /\ \A p \in 1..Len(top) :
            top[p].key \in C6_Types /\ top[p].count = C6_Count(top[p].key)
       /\ \A p, q \in 1..Len(top) : p < q => C6_Before(top[p].key, top[q].key)
       /\ \A k \in C6_Types \ listed : \A p \in 1..Len(top) : C6_Before(top[p].key, k)

\* more than ten types, and a type left out that has the count of the last
\* one listed
C6_Witness ==
  /\ pc = "errors"
  /\ result.unique_errors > 10
  /\ Len(result.top_errors) = 10
  /\ \E k \in C6_Types :
       /\ \A p \in 1..10 : result.top_errors[p].key # k
       /\ C6_Count(k) = result.top_errors[10].count
  /\ result.top_errors[1].count > result.top_errors[10].count

Items(c) == {c[i] : i \in 1..Len(c)}

RECURSIVE SumCounts(_)
SumCounts(c) == IF Len(c) = 0 THEN 0 ELSE c[1].count + SumCounts(Tail(c))

\* C10: on a non-empty record list, records without level and with
\* mixed-case levels included, total_errors of analyze_errors is
\* level_breakdown[ERROR] + level_breakdown[FATAL] of generate_summary
\* (missing keys 0), the counts of level_breakdown sum to total_logs, and
\* level_breakdown is level_distribution of analyze_patterns.
C10_AggregatorsAgree ==
  Len(logs) > 0 =>
    /\ pc = "errors" =>
         result.total_errors =
           CounterGet(generate_summary(logs).level_breakdown, ERROR, 0)
             + CounterGet(generate_summary(logs).level_breakdown, FATAL, 0)
    /\ pc = "summary" =>
         /\ SumCounts(result.level_breakdown) = result.total_logs
         /\ Items(result.level_breakdown) = Items(analyze_patterns(logs).level_distribution)
    /\ pc = "patterns" =>
         Items(result.level_distribution) = Items(generate_summary(logs).level_breakdown)

\* a lower-case error level next to a record with no level: one error, and
\* the missing level counted as INFO
C10_Witness ==
  /\ pc = "errors"
  /\ \E i \in 1..Len(logs) : "level" \notin DOMAIN logs[i]
  /\ \E i \in 1..Len(logs) : Get(logs[i], "level", << >>) \in {error_lc, fatal_lc}
  /\ result.total_errors = 1
  /\ CounterGet(generate_summary(logs).level_breakdown, INFO, 0) = 1

----------------------------------------------------------------------------
(* Properties of main (SpecMain).                                          *)

C7_SectionOf(selector) == IF selector = "errors_only" THEN "errors" ELSE selector

\* C7: the report holds exactly the sections requested: for every subset of
\* --summary, --errors-only, --patterns, --diagnostics each requested section
\* is present and no other is, and with no selector all four are present.
C7_SectionsAsRequested ==
  pc = "printed" =>
    DOMAIN result =
      IF args = {} THEN {"summary", "errors", "patterns", "diagnostics"}
      ELSE {C7_SectionOf(s) : s \in args}

----------------------------------------------------------------------------
(* Properties of filter_by_level (SpecFilter).                             *)

KnownLevels == {DEBUG, INFO, WARN, WARNING, ERROR, FATAL}

\* a record whose level is none of the six names after uppercasing
C2_Unknown(log) == "level" \in DOMAIN log /\ Upper(log.level) \notin KnownLevels

\* the ordinal of a threshold name in DEBUG(0) < INFO(1) < WARN/WARNING(2) <
\* ERROR(3) < FATAL(4), an unknown name 0
ThresholdOrdinal(level) ==
  LET name == Upper(level[1])
  IN IF name = INFO THEN 1
     ELSE IF name \in {WARN, WARNING} THEN 2
     ELSE IF name = ERROR THEN 3
     ELSE IF name = FATAL THEN 4
     ELSE 0

\* C2 as stated: filter_by_level never drops a record whose level is unknown,
\* whatever the minimum level, INFO, WARN, ERROR and FATAL included.
C2_UnknownNeverDropped ==
  pc = "filtered" => SelectSeq(result, C2_Unknown) = SelectSeq(logs, C2_Unknown)

\* C2 amended: a record of unknown level has ordinal 0, so it is kept exactly
\* when the threshold is absent or empty or has ordinal 0 (DEBUG or an unknown
\* name); at INFO, WARN, WARNING, ERROR and FATAL every such record is dropped.
C2_UnknownKeptAtOrdinalZero ==
  pc = "filtered" =>
    IF args[1] = None \/ args[1] = Some(<< >>) \/ ThresholdOrdinal(args[1]) = 0
    THEN SelectSeq(result, C2_Unknown) = SelectSeq(logs, C2_Unknown)
    ELSE SelectSeq(result, C2_Unknown) = << >>

\* a record of unknown level in the input, filtered at INFO and gone, and the
\* same at DEBUG kept
C2_Witness ==
  /\ pc = "filtered"
  /\ args[1] = Some(INFO)
  /\ \E i \in 1..Len(logs) : C2_Unknown(logs[i])
  /\ \A i \in 1..Len(result) : ~C2_Unknown(result[i])
  /\ filter_by_level(logs, Some(DEBUG)) = logs

\* C9: filtering at a level name L and then at a name L' of ordinal at least
\* that of L gives the sequence that filtering the input once at L' gives;
\* with no threshold the filter returns its input unchanged.
C9_Monotonic ==
  /\ (pc = "filtered" /\ args[1] = None) => result = logs
  /\ (pc = "refiltered" /\ args[2] = None) => result = filter_by_level(logs, args[1])
  /\ (pc = "refiltered" /\ Truthy(args[1]) /\ Truthy(args[2])
        /\ ThresholdOrdinal(args[2]) >= ThresholdOrdinal(args[1])) =>
       result = filter_by_level(logs, args[2])

\* filtered at WARNING, then at FATAL, a FATAL record surviving and a lower
\* one dropped by each pass
C9_Witness ==
  /\ pc = "refiltered"
  /\ args = <<Some(WARNING), Some(FATAL)>>
  /\ Len(logs) = 3
  /\ Len(result) = 1
  /\ Len(filter_by_level(logs, args[1])) = 2

----------------------------------------------------------------------------
(* Properties of the parsers and of detect_format (SpecParse).             *)

\* the whole text is one JSON value and that value is an object
C4_IsOneObject == JsonLoads(content).ok /\ JsonLoads(content).val[1] = "{"

\* C4: when the whole input parses as one JSON value that is a single object,
\* the parser yields exactly one record, that object, whether the object is
\* on one line or spread over several; for parse_json_logs and for load_logs.
C4_SingleObjectIsOneRecord ==
  (pc \in {"parsed", "loaded"} /\ C4_IsOneObject) =>
    logs = <<JsonLoads(content).val>>

\* the lines of the text, a trailing line break closing the last one
C8_Lines == SplitLines(content)

C8_Trim(line) == Strip(line)

C8_Json(line) == Len(line) > 0 /\ line[1] \in {"{", "["}

\* C8 as stated: the format is "json" iff the first line that is non-empty
\* after trimming begins with "{" or "[", "text" otherwise; blank lines
\* before a JSON document do not change the result.
C8_FirstNonEmptyLine ==
  pc = "detected" =>
    LET nonempty == {i \in 1..Len(C8_Lines) : Len(C8_Trim(C8_Lines[i])) > 0}
        first == CHOOSE i \in nonempty : \A j \in nonempty : i <= j
    IN result = IF nonempty # {} /\ C8_Json(C8_Trim(C8_Lines[first]))
                THEN "json" ELSE "text"

\* C8 amended: the format is decided by the first line of the file alone,
\* blank or not: "json" iff that line, trimmed, begins with "{" or "[", and
\* "text" otherwise, so a blank first line gives "text" whatever follows.
C8_FirstLine ==
  pc = "detected" =>
    result = IF C8_Json(C8_Trim(C8_Lines[1])) THEN "json" ELSE "text"

\* a blank first line before a JSON document, classified as text
C8_Witness ==
  /\ pc = "detected"
  /\ Len(C8_Lines) > 1
  /\ Len(C8_Trim(C8_Lines[1])) = 0
  /\ C8_Json(C8_Trim(C8_Lines[2]))
  /\ JsonLoads(content).ok
  /\ result = "text"

====
